---------------------------- MODULE Spec2Model ----------------------------
(***************************************************************************)
(* Model of fathom_video_mcp/server.py: the text normalizer, the search    *)
(* matcher, the three MCP tools (list_meetings, get_summary,               *)
(* get_transcript) and the request they all make through make_request.     *)
(*                                                                         *)
(* Python values are tagged records, so that a value of any type can sit   *)
(* in any position, as in Python: None, str (a sequence of one-character   *)
(* strings), int, list (a sequence of values) and dict (a record over the  *)
(* keys the program reads, a key that is not in the dict holding Absent).  *)
(***************************************************************************)
EXTENDS Integers, Sequences, FiniteSets, TLC

VARIABLES
    \* the text normalizer applied to a text, and to its own result
    phase, input, once, twice,
    \* the search matcher applied to a meeting record and a normalized term
    meeting, term, matched,
    \* the process environment: the value of FATHOM_API_KEY, Absent when unset
    env,
    \* the tool call being served: where it is, the tool and its arguments,
    \* list_meetings' clamped limit, the request built, the key read
    pc, call, limit, request, apiKey,
    \* the httpx client of the call: none, open or closed; how many clients
    \* the call has opened and how many times it has called client.get
    conn, opened, gets,
    \* what the remote did, the exception under way, the decoded body
    response, pending, data,
    \* how the call ended (returned or raised) and with what
    outcome, result,
    \* history: the key the call before this one read (the program keeps none)
    prevKey

normVars == <<input, once, twice>>

matchVars == <<meeting, term, matched>>

callVars ==
    <<env, pc, call, limit, request, apiKey, conn, opened, gets,
      response, pending, data, outcome, result, prevKey>>

vars == <<phase, normVars, matchVars, callVars>>

(***************************************************************************)
(* Bounds of the model.                                                    *)
(***************************************************************************)
\* longest text given to normalize_search in SpecNormalize
MaxLen == 4

\* most invitees of a meeting record given to meeting_matches_search in SpecMatch
MaxInvitees == 2

\* most segments of a transcript the remote answers with
MaxSegments == 2

\* most meeting records of a page the remote answers with in SpecList
MaxPage == 3

(***************************************************************************)
(* Python values.                                                          *)
(***************************************************************************)
None == [type |-> "NoneType"]

\* a key that the dict does not hold (never a value the program sees)
Absent == [type |-> "absent"]

Str(chars) == [type |-> "str", val |-> chars]

PyInt(n) == [type |-> "int", val |-> n]

List(elems) == [type |-> "list", val |-> elems]

Dict(fields) == [type |-> "dict", val |-> fields]

\* an exception leaving the expression that was evaluated
Raised(exc) == [type |-> "raise", exc |-> exc]

IsRaised(v) == v.type = "raise"

\* bool(v): None, "", 0, [] and {} are false
Truthy(v) ==
    CASE v.type = "NoneType" -> FALSE
      [] v.type = "str" -> v.val # <<>>
      [] v.type = "int" -> v.val # 0
      [] v.type = "list" -> v.val # <<>>
      [] v.type = "dict" -> \E k \in DOMAIN v.val : v.val[k] # Absent
      [] OTHER -> FALSE

\* d.get(k, default)
GetDefault(d, k, default) ==
    IF k \in DOMAIN d.val /\ d.val[k] # Absent THEN d.val[k] ELSE default

\* d.get(k)
Get(d, k) == GetDefault(d, k, None)

\* a or b
Or(a, b) == IF Truthy(a) THEN a ELSE b

(***************************************************************************)
(* str methods, on sequences of characters.                                *)
(***************************************************************************)
ToLower ==
    [A |-> "a", B |-> "b", C |-> "c", D |-> "d", E |-> "e", F |-> "f",
     G |-> "g", H |-> "h", I |-> "i", J |-> "j", K |-> "k", L |-> "l",
     M |-> "m", N |-> "n", O |-> "o", P |-> "p", Q |-> "q", R |-> "r",
     S |-> "s", T |-> "t", U |-> "u", V |-> "v", W |-> "w", X |-> "x",
     Y |-> "y", Z |-> "z"]

LowerChar(c) == IF c \in DOMAIN ToLower THEN ToLower[c] ELSE c

\* s.lower()
Lower(s) == [i \in 1..Len(s) |-> LowerChar(s[i])]

\* s.replace(old, new) for a one-character old
RECURSIVE Replace(_, _, _)
Replace(s, old, new) ==
    IF s = <<>> THEN <<>>
    ELSE (IF Head(s) = old THEN new ELSE <<Head(s)>>) \o Replace(Tail(s), old, new)

\* s.endswith(suffix)
EndsWith(s, suffix) ==
    /\ Len(suffix) <= Len(s)
    /\ SubSeq(s, Len(s) - Len(suffix) + 1, Len(s)) = suffix

\* needle in hay
Contains(hay, needle) ==
    \E i \in 0..(Len(hay) - Len(needle)) : SubSeq(hay, i + 1, i + Len(needle)) = needle

\* the length above which normalize_search strips a trailing "s"
PluralMinLen == 2

\* a faulty variant: it strips the trailing "s" of a short text too
StripsPluralAlways(normalized) == EndsWith(normalized, <<"s">>)

StripsPlural(normalized) ==
    EndsWith(normalized, <<"s">>) /\ Len(normalized) > PluralMinLen

\* a faulty variant: it leaves the underscores in
CompactedNoUnderscore(chars) ==
    Replace(Replace(Lower(chars), " ", <<>>), "-", <<>>)

\* text.lower().replace(" ", "").replace("-", "").replace("_", "")
Compacted(chars) ==
    Replace(Replace(Replace(Lower(chars), " ", <<>>), "-", <<>>), "_", <<>>)

normalize_search(text) ==
    LET normalized == Compacted(text.val)
    IN  IF StripsPlural(normalized)
        THEN Str(SubSeq(normalized, 1, Len(normalized) - 1))
        ELSE Str(normalized)

(***************************************************************************)
(* The dicts of the remote API, over the keys the program reads.           *)
(***************************************************************************)
Invitee(name, email, is_external) ==
    Dict([name |-> name, email |-> email, is_external |-> is_external])

MeetingRecord(title, meeting_title, recording_id, calendar_invitees, default_summary, transcript, action_items) ==
    Dict([title |-> title, meeting_title |-> meeting_title,
          recording_id |-> recording_id, url |-> Absent, share_url |-> Absent,
          created_at |-> Absent, scheduled_start_time |-> Absent,
          scheduled_end_time |-> Absent, recording_start_time |-> Absent,
          recording_end_time |-> Absent, transcript_language |-> Absent,
          recorded_by |-> Absent, calendar_invitees |-> calendar_invitees,
          default_summary |-> default_summary, transcript |-> transcript,
          action_items |-> action_items])

(***************************************************************************)
(* meeting_matches_search                                                  *)
(***************************************************************************)
\* a faulty variant: it normalizes the email as it does the name
InviteeEmailNormalized(invitee) ==
    normalize_search(Or(Get(invitee, "email"), Str(<<>>))).val

\* (invitee.get("email") or "").lower()
InviteeEmail(invitee) == Lower(Or(Get(invitee, "email"), Str(<<>>)).val)

\* normalize_search(invitee.get("name") or "")
InviteeName(invitee) == normalize_search(Or(Get(invitee, "name"), Str(<<>>))).val

\* the loop over the invitees, left at the first that matches
RECURSIVE AnyInviteeMatches(_, _)
AnyInviteeMatches(invitees, search_normalized) ==
    IF invitees = <<>> THEN FALSE
    ELSE IF \/ Contains(InviteeName(Head(invitees)), search_normalized.val)
            \/ Contains(InviteeEmail(Head(invitees)), search_normalized.val)
         THEN TRUE
         ELSE AnyInviteeMatches(Tail(invitees), search_normalized)

meeting_matches_search(m, search_normalized) ==
    LET title == normalize_search(Or(Get(m, "title"), Str(<<>>)))
        meeting_title == normalize_search(Or(Get(m, "meeting_title"), Str(<<>>)))
    IN  IF Contains(title.val, search_normalized.val) THEN TRUE
        ELSE IF Contains(meeting_title.val, search_normalized.val) THEN TRUE
        ELSE AnyInviteeMatches(Or(Get(m, "calendar_invitees"), List(<<>>)).val,
                               search_normalized)

(***************************************************************************)
(* get_api_key and make_request                                            *)
(***************************************************************************)
\* the connection attempts httpx.HTTPTransport(retries=3) adds to the first
Retries == 3

\* os.environ.get("FATHOM_API_KEY")
EnvironGet(e) == IF e = Absent THEN None ELSE e

\* a faulty variant: it rejects an unset key only, not an empty one
KeyMissingWhenUnset(api_key) == api_key = None

\* not api_key
KeyMissing(api_key) == ~Truthy(api_key)

\* response.raise_for_status() raises unless the status is a 2xx
IsSuccess(status) == status \in 200..299

\* a faulty variant: it closes the client only when the block is left without an exception
ConnAfterBlockNoFinally(exc) == IF exc = None THEN "closed" ELSE "open"

\* leaving "with httpx.Client(...) as client:" closes the client, however it is left
ConnAfterBlock(exc) == "closed"

(***************************************************************************)
(* list_meetings                                                           *)
(***************************************************************************)
MinLimit == 1

MaxLimit == 50

Min(a, b) == IF a < b THEN a ELSE b

Max(a, b) == IF a > b THEN a ELSE b

\* if limit is not None: limit = max(1, min(50, limit))
ClampLimit(lim) ==
    IF lim # None THEN PyInt(Max(MinLimit, Min(MaxLimit, lim.val))) ELSE lim

\* the value of a query parameter sent only when the argument is not None
ParamOf(arg) == IF arg # None THEN arg ELSE Absent

\* the value of a query parameter sent as "true" only when the flag is set
FlagOf(flag) == IF flag THEN Str(<<"t", "r", "u", "e">>) ELSE Absent

\* the query parameters of GET /meetings
ListParams(args) ==
    Dict([cursor |-> ParamOf(args.cursor),
          created_after |-> ParamOf(args.created_after),
          created_before |-> ParamOf(args.created_before),
          include_summary |-> FlagOf(args.include_summary),
          include_transcript |-> FlagOf(args.include_transcript),
          include_action_items |-> FlagOf(args.include_action_items),
          recorded_by |-> ParamOf(args.recorded_by),
          teams |-> ParamOf(args.teams),
          calendar_invitees_domains_type |-> ParamOf(args.calendar_invitees_domains_type),
          calendar_invitees_domains |-> ParamOf(args.invitee_domains)])

\* s[:n]
SliceTo(s, n) ==
    IF n >= 0 THEN SubSeq(s, 1, Min(n, Len(s)))
    ELSE SubSeq(s, 1, Max(Len(s) + n, 0))

\* [f(x) for x in xs], an exception raised by f leaving the comprehension
MapOrRaise(projected) ==
    IF \E i \in 1..Len(projected) : IsRaised(projected[i])
    THEN projected[CHOOSE i \in 1..Len(projected) :
                     /\ IsRaised(projected[i])
                     /\ \A j \in 1..(i - 1) : ~IsRaised(projected[j])]
    ELSE List(projected)

\* "Unknown"
Unknown == Str(<<"U", "n", "k", "n", "o", "w", "n">>)

\* seg.get("speaker", {}).get("display_name", "Unknown"): the default {} stands
\* in for an absent speaker only, and None has no get
ListSegmentSpeaker(seg) ==
    LET speaker == GetDefault(seg, "speaker", Dict([display_name |-> Absent]))
    IN  IF speaker.type # "dict" THEN Raised("AttributeError")
        ELSE GetDefault(speaker, "display_name", Unknown)

ListSegment(seg) ==
    IF IsRaised(ListSegmentSpeaker(seg)) THEN ListSegmentSpeaker(seg)
    ELSE Dict([speaker |-> ListSegmentSpeaker(seg),
               text |-> Get(seg, "text"),
               timestamp |-> Get(seg, "timestamp")])

ListInvitee(inv) ==
    Dict([name |-> Get(inv, "name"), email |-> Get(inv, "email"),
          is_external |-> Get(inv, "is_external")])

ListActionItem(item) ==
    Dict([description |-> Get(item, "description"),
          completed |-> Get(item, "completed"),
          recording_timestamp |-> Get(item, "recording_timestamp")])

SummaryBlock(summary) ==
    Dict([template_name |-> Get(summary, "template_name"),
          markdown_formatted |-> Get(summary, "markdown_formatted")])

\* a faulty variant: it adds the transcript whenever the summary is asked for
IncludesTranscriptWithSummary(args, transcript) ==
    (args.include_transcript \/ args.include_summary) /\ Truthy(transcript)

\* if include_transcript and transcript
IncludesTranscript(args, transcript) == args.include_transcript /\ Truthy(transcript)

\* the body of "for meeting in items": the meeting_data appended to meetings
ProjectMeeting(m, args) ==
    LET recorded_by_data == Get(m, "recorded_by")
        invitees == Get(m, "calendar_invitees")
        summary == Get(m, "default_summary")
        transcript == Get(m, "transcript")
        action_items == Get(m, "action_items")
        segments ==
            IF IncludesTranscript(args, transcript)
            THEN MapOrRaise([i \in 1..Len(transcript.val) |-> ListSegment(transcript.val[i])])
            ELSE Absent
    IN  IF IsRaised(segments) THEN segments
        ELSE Dict(
          [title |-> Get(m, "title"),
           meeting_title |-> Get(m, "meeting_title"),
           recording_id |-> Get(m, "recording_id"),
           url |-> Get(m, "url"),
           share_url |-> Get(m, "share_url"),
           created_at |-> Get(m, "created_at"),
           scheduled_start_time |-> Get(m, "scheduled_start_time"),
           scheduled_end_time |-> Get(m, "scheduled_end_time"),
           recording_start_time |-> Get(m, "recording_start_time"),
           recording_end_time |-> Get(m, "recording_end_time"),
           transcript_language |-> Get(m, "transcript_language"),
           recorded_by |->
               IF Truthy(recorded_by_data)
               THEN Dict([name |-> Get(recorded_by_data, "name"),
                          email |-> Get(recorded_by_data, "email")])
               ELSE Absent,
           calendar_invitees |->
               IF Truthy(invitees)
               THEN List([i \in 1..Len(invitees.val) |-> ListInvitee(invitees.val[i])])
               ELSE Absent,
           summary |->
               IF args.include_summary /\ Truthy(summary)
               THEN SummaryBlock(summary) ELSE Absent,
           transcript |-> segments,
           action_items |->
               IF args.include_action_items /\ Truthy(action_items)
               THEN List([i \in 1..Len(action_items.val) |->
                            ListActionItem(action_items.val[i])])
               ELSE Absent])

\* a faulty variant: it truncates the page before it filters it
FilterAndTruncateLimitFirst(items, search, lim) ==
    LET cut == IF lim # None THEN SliceTo(items, lim.val) ELSE items
    IN  IF Truthy(search)
        THEN SelectSeq(cut, LAMBDA m : meeting_matches_search(m, normalize_search(search)))
        ELSE cut

\* "if search:" keeps the records that match; "if limit is not None:" truncates
FilterAndTruncate(items, search, lim) ==
    LET kept ==
          IF Truthy(search)
          THEN SelectSeq(items, LAMBDA m : meeting_matches_search(m, normalize_search(search)))
          ELSE items
    IN  IF lim # None THEN SliceTo(kept, lim.val) ELSE kept

\* list_meetings from the decoded page on, lim the clamped limit
ListMeetingsResult(args, lim, page) ==
    LET items == FilterAndTruncate(GetDefault(page, "items", List(<<>>)).val, args.search, lim)
        meetings == MapOrRaise([i \in 1..Len(items) |-> ProjectMeeting(items[i], args)])
    IN  IF IsRaised(meetings) THEN meetings
        ELSE Dict([meetings |-> meetings,
                   count |-> PyInt(Len(meetings.val)),
                   next_cursor |-> Get(page, "next_cursor")])

(***************************************************************************)
(* get_summary                                                             *)
(***************************************************************************)
\* "No summary available for this recording", kept in one piece
NoSummaryMessage == Str(<<"No summary available for this recording">>)

\* a faulty variant: it reports the missing summary beside empty summary fields
NoSummaryWithFields(recording_id) ==
    Dict([recording_id |-> recording_id, template_name |-> None,
          markdown_formatted |-> None, error |-> NoSummaryMessage])

NoSummary(recording_id) ==
    Dict([recording_id |-> recording_id, template_name |-> Absent,
          markdown_formatted |-> Absent, error |-> NoSummaryMessage])

\* get_summary from the decoded envelope on
GetSummaryResult(recording_id, envelope) ==
    LET summary == Get(envelope, "summary")
    IN  IF Truthy(summary)
        THEN Dict([recording_id |-> recording_id,
                   template_name |-> Get(summary, "template_name"),
                   markdown_formatted |-> Get(summary, "markdown_formatted"),
                   error |-> Absent])
        ELSE NoSummary(recording_id)

(***************************************************************************)
(* get_transcript                                                          *)
(***************************************************************************)
\* a faulty variant: it has no default for the display name
SpeakerBlockNoDefault(speaker) ==
    Dict([display_name |-> Get(speaker, "display_name"),
          email |-> Get(speaker, "matched_calendar_invitee_email")])

SpeakerBlock(speaker) ==
    Dict([display_name |-> GetDefault(speaker, "display_name", Unknown),
          email |-> Get(speaker, "matched_calendar_invitee_email")])

\* the body of "for seg in transcript": the segment_data appended to segments
TranscriptSegment(seg) ==
    LET speaker == Get(seg, "speaker")
    IN  Dict([text |-> GetDefault(seg, "text", Str(<<>>)),
              timestamp |-> Get(seg, "timestamp"),
              speaker |-> IF Truthy(speaker) THEN SpeakerBlock(speaker) ELSE Absent])

\* get_transcript from the decoded envelope on
GetTranscriptResult(recording_id, envelope) ==
    LET transcript == GetDefault(envelope, "transcript", List(<<>>)).val
        segments == [i \in 1..Len(transcript) |-> TranscriptSegment(transcript[i])]
    IN  Dict([recording_id |-> recording_id,
              transcript |-> List(segments),
              segment_count |-> PyInt(Len(segments))])

(***************************************************************************)
(* The texts of at most n characters over an alphabet.                     *)
(***************************************************************************)
Texts(alphabet, n) == UNION {[1..k -> alphabet] : k \in 0..n}

\* upper and lower case letters and the three separators normalize_search removes
NormChars == {"A", "S", "s", " ", "-", "_"}

MatchIdle == /\ meeting = None /\ term = None /\ matched = None

NormIdle == /\ input = None /\ once = None /\ twice = None

\* neither pure function is being applied
PureIdle == phase = "calls" /\ NormIdle /\ MatchIdle

\* "k", a FATHOM_API_KEY that is set
KeySet == Str(<<"k">>)

\* no call is being served
NoCall ==
    /\ pc = "idle"
    /\ call = None
    /\ limit = None
    /\ request = None
    /\ apiKey = None
    /\ conn = "none"
    /\ opened = 0
    /\ gets = 0
    /\ response = None
    /\ pending = None
    /\ data = None
    /\ outcome = "none"
    /\ result = None

CallIdle == env = KeySet /\ NoCall /\ prevKey = None

(***************************************************************************)
(* A tool call, step by step.  The server serves one call at a time        *)
(* (mcp.run()); between two calls the environment may change.              *)
(***************************************************************************)
\* the arguments of list_meetings, the filters handed on to the remote left unset
ListArgs(lim, search, cursor, include_summary, include_transcript, include_action_items) ==
    [limit |-> lim, search |-> search, cursor |-> cursor,
     created_after |-> None, created_before |-> None,
     include_summary |-> include_summary,
     include_transcript |-> include_transcript,
     include_action_items |-> include_action_items,
     recorded_by |-> None, teams |-> None,
     calendar_invitees_domains_type |-> None, invitee_domains |-> None]

ListCall(args) == [tool |-> "list_meetings", args |-> args]

SummaryCall(recording_id) == [tool |-> "get_summary", args |-> [recording_id |-> recording_id]]

TranscriptCall(recording_id) ==
    [tool |-> "get_transcript", args |-> [recording_id |-> recording_id]]

\* the endpoint and the query parameters the tool hands to make_request
RequestOf(c) ==
    CASE c.tool = "list_meetings" ->
            [endpoint |-> "/meetings", recording_id |-> None,
             params |-> ListParams(c.args)]
      [] c.tool = "get_summary" ->
            [endpoint |-> "/recordings/{recording_id}/summary",
             recording_id |-> c.args.recording_id, params |-> None]
      [] c.tool = "get_transcript" ->
            [endpoint |-> "/recordings/{recording_id}/transcript",
             recording_id |-> c.args.recording_id, params |-> None]

\* a body that is not JSON
NotJson == [type |-> "notjson"]

\* client.get raised: no connection after every attempt, or no answer in time
TransportError(exc, connects) ==
    [kind |-> exc, connects |-> connects, status |-> 0, body |-> None]

\* client.get returned a response
HttpResponse(connects, status, body) ==
    [kind |-> "response", connects |-> connects, status |-> status, body |-> body]

\* what the tool makes of the decoded body
ToolResult(c, lim, body) ==
    CASE c.tool = "list_meetings" -> ListMeetingsResult(c.args, lim, body)
      [] c.tool = "get_summary" -> GetSummaryResult(c.args.recording_id, body)
      [] c.tool = "get_transcript" -> GetTranscriptResult(c.args.recording_id, body)

\* the host calls a tool; list_meetings clamps its limit and builds its parameters
Invoke(calls) ==
    /\ pc = "idle"
    /\ \E c \in calls :
        /\ call' = c
        /\ limit' = IF c.tool = "list_meetings" THEN ClampLimit(c.args.limit) ELSE None
        /\ request' = RequestOf(c)
    /\ pc' = "get_api_key"
    /\ outcome' = "running"
    /\ UNCHANGED <<env, apiKey, conn, opened, gets, response, pending, data, result>>
    /\ UNCHANGED <<phase, normVars, matchVars, prevKey>>

\* make_request builds its headers: get_api_key reads the environment now
GetApiKey ==
    /\ pc = "get_api_key"
    /\ apiKey' = EnvironGet(env)
    /\ IF KeyMissing(EnvironGet(env))
       THEN /\ pc' = "done"
            /\ outcome' = "raised"
            /\ result' = Raised("ValueError")
       ELSE /\ pc' = "open"
            /\ UNCHANGED <<outcome, result>>
    /\ UNCHANGED <<env, call, limit, request, conn, opened, gets, response, pending, data>>
    /\ UNCHANGED <<phase, normVars, matchVars, prevKey>>

\* with httpx.Client(transport=transport, timeout=30.0) as client
OpenClient ==
    /\ pc = "open"
    /\ conn' = "open"
    /\ opened' = opened + 1
    /\ pc' = "get"
    /\ UNCHANGED <<env, call, limit, request, apiKey, gets, response, pending, data,
                   outcome, result>>
    /\ UNCHANGED <<phase, normVars, matchVars, prevKey>>

\* client.get(url, headers=headers, params=params): the remote answers, or not
ClientGet(responses) ==
    /\ pc = "get"
    /\ gets' = gets + 1
    /\ \E r \in responses[call.tool] :
        /\ response' = r
        /\ IF r.kind = "response"
           THEN pc' = "raise_for_status" /\ UNCHANGED pending
           ELSE pc' = "exit" /\ pending' = Raised(r.kind)
    /\ UNCHANGED <<env, call, limit, request, apiKey, conn, opened, data, outcome, result>>
    /\ UNCHANGED <<phase, normVars, matchVars, prevKey>>

\* response.raise_for_status()
RaiseForStatus ==
    /\ pc = "raise_for_status"
    /\ IF IsSuccess(response.status)
       THEN pc' = "json" /\ UNCHANGED pending
       ELSE pc' = "exit" /\ pending' = Raised("HTTPStatusError")
    /\ UNCHANGED <<env, call, limit, request, apiKey, conn, opened, gets, response, data,
                   outcome, result>>
    /\ UNCHANGED <<phase, normVars, matchVars, prevKey>>

\* return response.json()
ResponseJson ==
    /\ pc = "json"
    /\ IF response.body = NotJson
       THEN pending' = Raised("JSONDecodeError") /\ UNCHANGED data
       ELSE data' = response.body /\ UNCHANGED pending
    /\ pc' = "exit"
    /\ UNCHANGED <<env, call, limit, request, apiKey, conn, opened, gets, response,
                   outcome, result>>
    /\ UNCHANGED <<phase, normVars, matchVars, prevKey>>

\* the with block is left: the client is closed, and an exception goes on to the caller
ClientExit ==
    /\ pc = "exit"
    /\ conn' = ConnAfterBlock(pending)
    /\ IF pending # None
       THEN /\ pc' = "done"
            /\ outcome' = "raised"
            /\ result' = pending
       ELSE /\ pc' = "project"
            /\ UNCHANGED <<outcome, result>>
    /\ UNCHANGED <<env, call, limit, request, apiKey, opened, gets, response, pending, data>>
    /\ UNCHANGED <<phase, normVars, matchVars, prevKey>>

\* the rest of the tool: filter, truncate and project the decoded body, and return
Project ==
    /\ pc = "project"
    /\ result' = ToolResult(call, limit, data)
    /\ outcome' = IF IsRaised(ToolResult(call, limit, data)) THEN "raised" ELSE "returned"
    /\ pc' = "done"
    /\ UNCHANGED <<env, call, limit, request, apiKey, conn, opened, gets, response,
                   pending, data>>
    /\ UNCHANGED <<phase, normVars, matchVars, prevKey>>

\* the call is over: nothing of it is kept
Finish ==
    /\ pc = "done"
    /\ pc' = "idle"
    /\ call' = None
    /\ limit' = None
    /\ request' = None
    /\ apiKey' = None
    /\ conn' = "none"
    /\ opened' = 0
    /\ gets' = 0
    /\ response' = None
    /\ pending' = None
    /\ data' = None
    /\ outcome' = "none"
    /\ result' = None
    /\ prevKey' = apiKey
    /\ UNCHANGED env
    /\ UNCHANGED <<phase, normVars, matchVars>>

\* between two calls FATHOM_API_KEY is set, emptied or unset
SetEnv(envs) ==
    /\ pc = "idle"
    /\ \E e \in envs : e # env /\ env' = e
    /\ UNCHANGED <<pc, call, limit, request, apiKey, conn, opened, gets, response,
                   pending, data, outcome, result>>
    /\ UNCHANGED <<phase, normVars, matchVars, prevKey>>

\* the steps of a call under way
Step == GetApiKey \/ OpenClient \/ RaiseForStatus \/ ResponseJson \/ ClientExit \/ Project

(***************************************************************************)
(* SpecNormalize: normalize_search on every text of at most MaxLen         *)
(* characters, then on its own result.                                     *)
(***************************************************************************)
InitNormalize ==
    /\ phase = "start"
    /\ input \in {Str(t) : t \in Texts(NormChars, MaxLen)}
    /\ once = None
    /\ twice = None
    /\ MatchIdle
    /\ CallIdle

Normalize ==
    /\ phase = "start"
    /\ once' = normalize_search(input)
    /\ phase' = "once"
    /\ UNCHANGED <<input, twice, matchVars, callVars>>

NormalizeAgain ==
    /\ phase = "once"
    /\ twice' = normalize_search(once)
    /\ phase' = "twice"
    /\ UNCHANGED <<input, once, matchVars, callVars>>

NextNormalize == Normalize \/ NormalizeAgain

SpecNormalize == InitNormalize /\ [][NextNormalize]_vars

(***************************************************************************)
(* C2: normalize_search returns the text in lower case without its spaces, *)
(* hyphens and underscores, and without its last character when that is    *)
(* an "s" and more than 2 characters are left; nothing else changes, so    *)
(* "os" stays "os" and "" stays "".                                        *)
(***************************************************************************)
C2_NormalizeSearch ==
    phase # "start" =>
        LET lowered == [i \in 1..Len(input.val) |-> LowerChar(input.val[i])]
            kept == SelectSeq(lowered, LAMBDA c : c \notin {" ", "-", "_"})
            n == Len(kept)
        IN  /\ once.type = "str"
            /\ once.val = IF n > 2 /\ kept[n] = "s" THEN SubSeq(kept, 1, n - 1) ELSE kept
            /\ (n <= 2 => once.val = kept)
            /\ (input.val = <<>> => once.val = <<>>)
            /\ \A i \in 1..Len(once.val) : once.val[i] \in {"a", "s"}

\* "A_Ss" has become "as": lowered, the underscore removed, one "s" stripped
C2_Witness ==
    /\ phase = "once"
    /\ input = Str(<<"A", "_", "S", "s">>)
    /\ once = Str(<<"a", "s">>)

(***************************************************************************)
(* C1: normalize_search is idempotent: normalizing a normalized text       *)
(* changes nothing.  (The claim as stated.)                                *)
(***************************************************************************)
C1_Idempotent == phase = "twice" => twice = once

\* the compacted text ends in "ss" and is longer than 3 characters
EndsInDoubleS(chars) ==
    EndsWith(Compacted(chars), <<"s", "s">>) /\ Len(Compacted(chars)) > PluralMinLen + 1

(***************************************************************************)
(* C1, amended: normalizing a normalized text changes nothing, unless the  *)
(* lowercased text without its separators ends in "ss" and is longer than  *)
(* 3 characters; then the second pass strips one more "s".                 *)
(***************************************************************************)
C1_IdempotentUnlessDoubleS ==
    phase = "twice" =>
        IF EndsInDoubleS(input.val)
        THEN twice = Str(SubSeq(once.val, 1, Len(once.val) - 1)) /\ twice # once
        ELSE twice = once

\* "As s" is normalized to "as" (one "s" stripped), and "as" is normalized to itself
C1_Witness ==
    /\ phase = "twice"
    /\ input = Str(<<"A", "s", " ", "s">>)
    /\ once = Str(<<"a", "s">>)
    /\ twice = once

(***************************************************************************)
(* SpecMatch: meeting_matches_search on meeting records whose titles,      *)
(* invitee list, invitee names and invitee emails are absent, None or a    *)
(* text, and on the normalized forms of a few search inputs.               *)
(***************************************************************************)
SeqsUpTo(S, n) == UNION {[1..k -> S] : k \in 0..n}

\* "Ab Ss", normalized "abs"
TitleAbSs == Str(<<"A", "b", " ", "S", "s">>)

\* "b-a", normalized "ba"
TitleBa == Str(<<"b", "-", "a">>)

\* "B a", normalized "ba"
NameBa == Str(<<"B", " ", "a">>)

\* "A-B@s.cs": lowercased "a-b@s.cs", which normalize_search would turn into "ab@s.c"
EmailAB == Str(<<"A", "-", "B", "@", "s", ".", "c", "s">>)

\* "", "Abs", "b-a", "cs", "b@s", "Sc"
SearchInputs ==
    {Str(<<>>), Str(<<"A", "b", "s">>), Str(<<"b", "-", "a">>), Str(<<"c", "s">>),
     Str(<<"b", "@", "s">>), Str(<<"S", "c">>)}

MatchInvitees ==
    {Invitee(n, e, Absent) : n \in {Absent, None, NameBa}, e \in {Absent, None, EmailAB}}

MatchMeetings ==
    {MeetingRecord(t, mt, Absent, inv, Absent, Absent, Absent) :
        t \in {Absent, None, TitleAbSs},
        mt \in {Absent, None, TitleBa},
        inv \in {Absent, None} \cup {List(q) : q \in SeqsUpTo(MatchInvitees, MaxInvitees)}}

InitMatch ==
    /\ phase = "start"
    /\ meeting \in MatchMeetings
    /\ term \in {normalize_search(x) : x \in SearchInputs}
    /\ matched = None
    /\ NormIdle
    /\ CallIdle

Match ==
    /\ phase = "start"
    /\ matched' = meeting_matches_search(meeting, term)
    /\ phase' = "matched"
    /\ UNCHANGED <<meeting, term, normVars, callVars>>

NextMatch == Match

SpecMatch == InitMatch /\ [][NextMatch]_vars

\* the text of a field that may be absent or None: then the empty text
TextOr(d, k) == IF d.val[k] \in {Absent, None} THEN <<>> ELSE d.val[k].val

\* the invitees of a record whose list may be absent or None: then none
InviteesOf(m) ==
    IF m.val.calendar_invitees \in {Absent, None} THEN <<>>
    ELSE m.val.calendar_invitees.val

(***************************************************************************)
(* C3: meeting_matches_search(m, t) is true exactly when t is a substring  *)
(* of the normalized title, or of the normalized meeting_title, or, for    *)
(* some invitee, of the normalized name or of the lowercased (not          *)
(* normalized) email; an absent or None field counts as empty, and with    *)
(* no field matching and no invitee the result is false.                   *)
(***************************************************************************)
C3_MatchesSearch ==
    phase = "matched" =>
        /\ matched \in BOOLEAN
        /\ matched =
              \/ Contains(normalize_search(Str(TextOr(meeting, "title"))).val, term.val)
              \/ Contains(normalize_search(Str(TextOr(meeting, "meeting_title"))).val, term.val)
              \/ \E i \in 1..Len(InviteesOf(meeting)) :
                    \/ Contains(normalize_search(Str(TextOr(InviteesOf(meeting)[i], "name"))).val,
                                term.val)
                    \/ Contains(Lower(TextOr(InviteesOf(meeting)[i], "email")), term.val)
        /\ (/\ InviteesOf(meeting) = <<>>
            /\ ~Contains(normalize_search(Str(TextOr(meeting, "title"))).val, term.val)
            /\ ~Contains(normalize_search(Str(TextOr(meeting, "meeting_title"))).val, term.val)
            => matched = FALSE)

\* a record without titles matches "cs" by the lowercased email of its second invitee
C3_Witness ==
    /\ phase = "matched"
    /\ meeting = MeetingRecord(Absent, None, Absent,
                               List(<<Invitee(None, Absent, Absent),
                                      Invitee(Absent, EmailAB, Absent)>>),
                               Absent, Absent, Absent)
    /\ term = Str(<<"c", "s">>)
    /\ matched = TRUE

(***************************************************************************)
(* Spec: the three tools, called one after the other with a few arguments, *)
(* against a remote that answers with a summary or transcript envelope or  *)
(* a page of meetings, with an error status, with a body that is not JSON, *)
(* or not at all, while the environment changes between the calls.         *)
(***************************************************************************)
Envs == {Absent, Str(<<>>), KeySet}

Summary(template_name, markdown_formatted) ==
    Dict([template_name |-> template_name, markdown_formatted |-> markdown_formatted])

Speaker(display_name, email) ==
    Dict([display_name |-> display_name, matched_calendar_invitee_email |-> email])

Segment(speaker, text, timestamp) ==
    Dict([speaker |-> speaker, text |-> text, timestamp |-> timestamp])

ActionItem(description, completed) ==
    Dict([description |-> description, completed |-> completed,
          recording_timestamp |-> Absent])

Page(items, next_cursor) == Dict([items |-> items, next_cursor |-> next_cursor])

\* "Al"
NameAl == Str(<<"A", "l">>)

\* "a@b"
EmailAtB == Str(<<"a", "@", "b">>)

\* "hi"
TextHi == Str(<<"h", "i">>)

\* "Recap"
TemplateRecap == Str(<<"R", "e", "c", "a", "p">>)

\* "# Hi"
MarkdownHi == Str(<<"#", " ", "H", "i">>)

\* "c2", a cursor of the remote
CursorC2 == Str(<<"c", "2">>)

\* the speakers of a raw segment: no key, None, {}, and with or without a display name
Speakers ==
    {Absent, None, Speaker(Absent, Absent), Speaker(Absent, EmailAtB),
     Speaker(NameAl, Absent), Speaker(None, EmailAtB)}

FetchSegments ==
    {Segment(sp, tx, Absent) : sp \in Speakers, tx \in {Absent, TextHi}}
        \cup {Segment(Speaker(NameAl, EmailAtB), None, Str(<<"0", "1">>))}

SummaryEnvelopes ==
    {Dict([summary |-> x]) :
        x \in {Absent, None, Summary(Absent, Absent), Summary(TemplateRecap, Absent),
               Summary(None, MarkdownHi), Summary(TemplateRecap, MarkdownHi)}}

TranscriptEnvelopes ==
    {Dict([transcript |-> x]) :
        x \in {Absent} \cup {List(q) : q \in SeqsUpTo(FetchSegments, MaxSegments)}}

\* two meetings: one titled "Ab Ss" with a summary, one known by an invitee only
MeetingAbSs ==
    MeetingRecord(TitleAbSs, None, PyInt(1), Absent,
                  Summary(TemplateRecap, MarkdownHi), Absent, Absent)

MeetingInvitee ==
    MeetingRecord(Absent, Absent, PyInt(2), List(<<Invitee(NameBa, EmailAB, Absent)>>),
                  Absent, Absent, Absent)

SpecPages ==
    {Page(Absent, Absent), Page(List(<<>>), None),
     Page(List(<<MeetingAbSs, MeetingInvitee>>), CursorC2)}

SpecCalls ==
    {ListCall(ListArgs(lim, search, None, s, FALSE, FALSE)) :
        lim \in {None, PyInt(1)}, search \in {None, Str(<<"b", "a">>)}, s \in BOOLEAN}
        \cup {SummaryCall(PyInt(id)) : id \in {1, 2}}
        \cup {TranscriptCall(PyInt(1))}

\* client.get fails, or answers with an error status or with a body that is not JSON
Failures ==
    {TransportError("ConnectError", Retries + 1), TransportError("ReadTimeout", 1),
     HttpResponse(1, 404, NotJson), HttpResponse(Retries + 1, 500, Dict([error |-> TextHi])),
     HttpResponse(1, 200, NotJson)}

Answers(bodies) == {HttpResponse(n, 200, b) : n \in {1, Retries + 1}, b \in bodies}

SpecResponses ==
    [list_meetings |-> Failures \cup Answers(SpecPages),
     get_summary |-> Failures \cup Answers(SummaryEnvelopes),
     get_transcript |-> Failures \cup Answers(TranscriptEnvelopes)]

Init ==
    /\ env \in Envs
    /\ NoCall
    /\ prevKey = None
    /\ PureIdle

Next ==
    \/ Invoke(SpecCalls)
    \/ ClientGet(SpecResponses)
    \/ Step
    \/ Finish
    \/ SetEnv(Envs)

Spec == Init /\ [][Next]_vars

\* a call under way goes on: the code is synchronous, and client.get returns or
\* raises within its timeout
FairSpec == Spec /\ WF_vars(Step \/ ClientGet(SpecResponses))

\* the call got a decoded body and is over
Decoded(tool) == pc = "done" /\ call.tool = tool /\ data # None

\* a dict with at least one key
NonEmptyDict(v) == v.type = "dict" /\ \E k \in DOMAIN v.val : v.val[k] # Absent

\* the value under a key, None when the dict has no such key
ValueOf(d, k) == IF d.val[k] = Absent THEN None ELSE d.val[k]

(***************************************************************************)
(* C7 as stated: get_summary returns normally; if the envelope carries a   *)
(* summary object the result is {recording_id, template_name,              *)
(* markdown_formatted} without an error key, otherwise {recording_id,      *)
(* error: "No summary available for this recording"} without a             *)
(* template_name key.                                                      *)
(***************************************************************************)
C7_SummaryObject ==
    Decoded("get_summary") =>
        /\ outcome = "returned"
        /\ result.val.recording_id = call.args.recording_id
        /\ IF data.val.summary.type = "dict"
           THEN /\ result.val.template_name = ValueOf(data.val.summary, "template_name")
                /\ result.val.markdown_formatted = ValueOf(data.val.summary, "markdown_formatted")
                /\ result.val.error = Absent
           ELSE /\ result.val.error = NoSummaryMessage
                /\ result.val.template_name = Absent
                /\ result.val.markdown_formatted = Absent

(***************************************************************************)
(* C7, amended: get_summary returns normally; if the envelope carries a    *)
(* non-empty summary object the result is {recording_id, template_name,    *)
(* markdown_formatted} without an error key; otherwise (no summary key,    *)
(* None, or an empty object) it is {recording_id, error: "No summary       *)
(* available for this recording"} without a template_name key.             *)
(***************************************************************************)
C7_NonEmptySummaryObject ==
    Decoded("get_summary") =>
        /\ outcome = "returned"
        /\ result.val.recording_id = call.args.recording_id
        /\ IF NonEmptyDict(data.val.summary)
           THEN /\ result.val.template_name = ValueOf(data.val.summary, "template_name")
                /\ result.val.markdown_formatted = ValueOf(data.val.summary, "markdown_formatted")
                /\ result.val.error = Absent
           ELSE /\ result.val.error = NoSummaryMessage
                /\ result.val.template_name = Absent
                /\ result.val.markdown_formatted = Absent

\* recording 2 has no summary (None): the call returned the not-found value
C7_Witness ==
    /\ Decoded("get_summary")
    /\ call.args.recording_id = PyInt(2)
    /\ data = Dict([summary |-> None])
    /\ outcome = "returned"
    /\ result.val.error = NoSummaryMessage

\* the raw segments of the decoded envelope
RawSegments == IF data.val.transcript = Absent THEN <<>> ELSE data.val.transcript.val

\* what the claim says of every projected segment but its speaker key
SegmentAsClaimed(raw, projected) ==
    /\ projected.val.text = IF raw.val.text = Absent THEN Str(<<>>) ELSE raw.val.text
    /\ projected.val.timestamp = ValueOf(raw, "timestamp")
    /\ projected.val.speaker # Absent =>
        /\ projected.val.speaker.val.display_name =
              IF raw.val.speaker.val.display_name = Absent THEN Unknown
              ELSE raw.val.speaker.val.display_name
        /\ projected.val.speaker.val.email =
              ValueOf(raw.val.speaker, "matched_calendar_invitee_email")

TranscriptAsClaimed ==
    /\ outcome = "returned"
    /\ result.val.recording_id = call.args.recording_id
    /\ Len(result.val.transcript.val) = Len(RawSegments)
    /\ result.val.segment_count = PyInt(Len(RawSegments))
    /\ \A i \in 1..Len(RawSegments) :
          SegmentAsClaimed(RawSegments[i], result.val.transcript.val[i])

(***************************************************************************)
(* C8 as stated: get_transcript returns {recording_id, transcript,         *)
(* segment_count}, one projected segment per raw segment in the same       *)
(* order, segment_count their number, also for an empty or absent list; a  *)
(* projected segment has a speaker key exactly when the raw segment        *)
(* carries a speaker object, with the raw display name or "Unknown", and   *)
(* text defaults to "".                                                    *)
(***************************************************************************)
C8_SpeakerObject ==
    Decoded("get_transcript") =>
        /\ TranscriptAsClaimed
        /\ \A i \in 1..Len(RawSegments) :
              (result.val.transcript.val[i].val.speaker # Absent)
                  <=> (RawSegments[i].val.speaker.type = "dict")

(***************************************************************************)
(* C8, amended: as stated, but a projected segment has a speaker key       *)
(* exactly when the raw segment carries a non-empty speaker object: a      *)
(* segment whose speaker is absent, None or {} has no speaker key.         *)
(***************************************************************************)
C8_NonEmptySpeakerObject ==
    Decoded("get_transcript") =>
        /\ TranscriptAsClaimed
        /\ \A i \in 1..Len(RawSegments) :
              (result.val.transcript.val[i].val.speaker # Absent)
                  <=> NonEmptyDict(RawSegments[i].val.speaker)

\* two segments, the first without a speaker, the second with a speaker that has
\* no display name: projected in this order, "Unknown" in the second
C8_Witness ==
    /\ Decoded("get_transcript")
    /\ RawSegments = <<Segment(Absent, TextHi, Absent),
                       Segment(Speaker(Absent, EmailAtB), Absent, Absent)>>
    /\ result.val.segment_count = PyInt(2)
    /\ result.val.transcript.val[1].val.speaker = Absent
    /\ result.val.transcript.val[2].val.speaker.val.display_name = Unknown
    /\ result.val.transcript.val[2].val.text = Str(<<>>)

\* the call is over, or has gone back to the host
CallOver == pc \in {"done", "idle"}

(***************************************************************************)
(* C9 as stated: every tool call opens one connection and performs exactly *)
(* one HTTP GET on it, and no connection stays open after the call has     *)
(* returned or failed.                                                     *)
(***************************************************************************)
C9_EveryCallOneGet ==
    /\ pc = "done" => opened = 1 /\ gets = 1 /\ conn = "closed"
    /\ CallOver => conn # "open"

(***************************************************************************)
(* C9, amended: every tool call that finds the credential opens one        *)
(* connection and performs exactly one HTTP GET on it, and a call that     *)
(* finds the credential missing or empty opens none and performs no GET;   *)
(* a connection that was opened is eventually released on every exit path  *)
(* (success, HTTP error status, transport error), and none stays open      *)
(* after the call has returned or failed.                                  *)
(***************************************************************************)
C9_OneGetThenReleased ==
    /\ [](pc = "done" /\ apiKey = KeySet => opened = 1 /\ gets = 1 /\ conn = "closed")
    /\ [](pc = "done" /\ apiKey # KeySet => opened = 0 /\ gets = 0 /\ conn = "none")
    /\ [](CallOver \/ pc = "project" => conn # "open")
    /\ [](opened <= 1 /\ gets <= 1 /\ (gets = 1 => opened = 1))
    /\ (conn = "open" ~> conn = "closed")

\* the remote answered 404: the call failed after one GET and its connection is closed
C9_Witness ==
    /\ pc = "done"
    /\ outcome = "raised"
    /\ result = Raised("HTTPStatusError")
    /\ response.status = 404
    /\ opened = 1
    /\ gets = 1
    /\ conn = "closed"

\* the remote did not answer with a 2xx and a JSON body
RemoteFailed ==
    /\ response # None
    /\ \/ response.kind # "response"
       \/ response.status < 200
       \/ response.status > 299
       \/ response.body = NotJson

(***************************************************************************)
(* C10: a tool call fully succeeds or fully fails.  The credential is read *)
(* from the environment during the call; when it is missing or empty the   *)
(* call fails with the configuration error before any request is sent;     *)
(* when the remote answers with a non-2xx status or the transport fails    *)
(* the call fails with that error; a call that failed hands no result      *)
(* payload to the caller.                                                  *)
(***************************************************************************)
C10_SucceedsOrFails ==
    /\ pc \notin {"idle", "get_api_key"} =>
          apiKey = (IF env = Absent THEN None ELSE env)
    /\ pc \notin {"idle", "get_api_key"} /\ apiKey \in {None, Str(<<>>)} =>
          /\ pc = "done"
          /\ outcome = "raised"
          /\ result = Raised("ValueError")
          /\ opened = 0 /\ gets = 0 /\ response = None
    /\ pc = "done" /\ response # None /\ response.kind # "response" =>
          outcome = "raised" /\ result = Raised(response.kind)
    /\ pc = "done" /\ response # None /\ response.kind = "response"
          /\ response.status \notin 200..299 =>
          outcome = "raised" /\ result = Raised("HTTPStatusError")
    /\ pc = "done" => outcome \in {"returned", "raised"}
    /\ pc # "done" => result = None /\ outcome \in {"none", "running"}
    /\ outcome = "raised" => result.type = "raise"
    /\ outcome = "returned" =>
          /\ result.type = "dict"
          /\ apiKey = KeySet
          /\ ~RemoteFailed

\* the call before read a key and got its answer; FATHOM_API_KEY was emptied since,
\* and this call failed with the configuration error without sending a request
C10_Witness ==
    /\ pc = "done"
    /\ prevKey = KeySet
    /\ env = Str(<<>>)
    /\ apiKey = Str(<<>>)
    /\ outcome = "raised"
    /\ result = Raised("ValueError")
    /\ gets = 0

(***************************************************************************)
(* SpecList: list_meetings with every limit around the clamp, with and     *)
(* without a search, on every page of at most MaxPage records out of       *)
(* three, one of which matches "Abs" and two of which match "b-a"; the     *)
(* include flags are all set or all unset.                                 *)
(***************************************************************************)
\* a meeting without a title, whose meeting_title is "b-a" and whose transcript has
\* a segment with a None speaker
MeetingBa ==
    MeetingRecord(None, TitleBa, PyInt(3), None, Absent,
                  List(<<Segment(None, TextHi, Absent)>>), Absent)

ListCatalog == {MeetingAbSs, MeetingInvitee, MeetingBa}

ListPages ==
    {Page(items, cursor) :
        items \in {Absent} \cup {List(q) : q \in SeqsUpTo(ListCatalog, MaxPage)},
        cursor \in {Absent, CursorC2}}

ListLimits == {None, PyInt(0), PyInt(1), PyInt(2), PyInt(100)}

ListSearches == {None, Str(<<>>), Str(<<"A", "b", "s">>), Str(<<"b", "-", "a">>)}

ListCalls ==
    {ListCall(ListArgs(lim, search, None, flag, flag, flag)) :
        lim \in ListLimits, search \in ListSearches, flag \in BOOLEAN}

ListResponses ==
    [list_meetings |-> Failures \cup {HttpResponse(1, 200, b) : b \in ListPages},
     get_summary |-> {},
     get_transcript |-> {}]

NextList ==
    \/ Invoke(ListCalls)
    \/ ClientGet(ListResponses)
    \/ Step
    \/ Finish
    \/ SetEnv(Envs)

SpecList == Init /\ [][NextList]_vars

\* the records of the decoded page
RawItems == IF data.val.items = Absent THEN <<>> ELSE data.val.items.val

\* the records of the page that match the search, all of them without a search
Matching ==
    IF call.args.search = None THEN RawItems
    ELSE SelectSeq(RawItems,
                   LAMBDA m : meeting_matches_search(m, normalize_search(call.args.search)))

\* the limit clamped into [1, 50]
Clamped(n) == IF n < 1 THEN 1 ELSE IF n > 50 THEN 50 ELSE n

\* how many records the call returns
Returned ==
    IF call.args.limit = None THEN Len(Matching)
    ELSE IF Clamped(call.args.limit.val) < Len(Matching)
         THEN Clamped(call.args.limit.val) ELSE Len(Matching)

WithRecordedBy(m, recorded_by) == Dict([m.val EXCEPT !.recorded_by = recorded_by])

ProjectSegments ==
    {Segment(sp, TextHi, Absent) :
        sp \in {Absent, None, Speaker(Absent, Absent), Speaker(NameAl, Absent),
                Speaker(Absent, EmailAtB)}}

ProjectSummaries == {Absent, None, Summary(Absent, Absent), Summary(TemplateRecap, MarkdownHi)}

ProjectTranscripts ==
    {Absent, None} \cup {List(q) : q \in SeqsUpTo(ProjectSegments, MaxSegments)}

ProjectActionItems ==
    {Absent, None, List(<<>>), List(<<ActionItem(TextHi, Absent)>>)}

ProjectCatalog ==
    {MeetingRecord(TitleBa, Absent, PyInt(1), Absent, s, t, a) :
        s \in ProjectSummaries, t \in ProjectTranscripts, a \in ProjectActionItems}
    \cup
    {WithRecordedBy(MeetingRecord(None, None, None, inv, None, None, None), rb) :
        inv \in {None, List(<<>>), List(<<Invitee(Absent, None, Absent)>>)},
        rb \in {None, Dict([name |-> Absent, email |-> Absent]),
                Dict([name |-> NameAl, email |-> None])}}

\* a page of two: a filled record, and one whose fields are all None
ProjectPair ==
    <<MeetingRecord(TitleBa, Absent, PyInt(1), Absent, Summary(TemplateRecap, Absent),
                    List(<<Segment(Speaker(NameAl, Absent), TextHi, Absent)>>),
                    List(<<ActionItem(Absent, Absent)>>)),
      WithRecordedBy(MeetingRecord(None, None, None, None, None, None, None), None)>>

ProjectPages ==
    {Page(List(<<m>>), None) : m \in ProjectCatalog} \cup {Page(List(ProjectPair), CursorC2)}

ProjectCalls ==
    {ListCall(ListArgs(None, None, None, s, t, a)) :
        s \in BOOLEAN, t \in BOOLEAN, a \in BOOLEAN}

ProjectResponses ==
    [list_meetings |-> Failures \cup {HttpResponse(1, 200, b) : b \in ProjectPages},
     get_summary |-> {},
     get_transcript |-> {}]

NextProject ==
    \/ Invoke(ProjectCalls)
    \/ ClientGet(ProjectResponses)
    \/ Step
    \/ Finish
    \/ SetEnv(Envs)

SpecProject == Init /\ [][NextProject]_vars

\* the raw record carries a value under the key: the key is there and is not None
Carries(m, k) == m.val[k] \notin {Absent, None}

\* the raw record carries a value under the key that is not empty ({} or [])
CarriesNonEmpty(m, k) ==
    /\ Carries(m, k)
    /\ m.val[k].type = "dict" => NonEmptyDict(m.val[k])
    /\ m.val[k].type = "list" => m.val[k].val # <<>>

\* the meetings returned, one per record of the page (no search and no limit here)
Projected == result.val.meetings.val

(***************************************************************************)
(* C5 as stated: in every projected meeting the summary key is present     *)
(* exactly when include_summary was requested and the raw record carries a *)
(* default_summary, the transcript key exactly when include_transcript was *)
(* requested and the raw record carries a transcript, the action_items key *)
(* exactly when include_action_items was requested and the raw record      *)
(* carries action_items.                                                   *)
(***************************************************************************)
C5_BlockWhenCarried ==
    Decoded("list_meetings") /\ outcome = "returned" =>
        \A i \in 1..Len(Projected) :
            /\ (Projected[i].val.summary # Absent)
                  <=> (call.args.include_summary /\ Carries(RawItems[i], "default_summary"))
            /\ (Projected[i].val.transcript # Absent)
                  <=> (call.args.include_transcript /\ Carries(RawItems[i], "transcript"))
            /\ (Projected[i].val.action_items # Absent)
                  <=> (call.args.include_action_items /\ Carries(RawItems[i], "action_items"))

(***************************************************************************)
(* C5, amended: in every projected meeting each optional block is an       *)
(* independent toggle: the summary key is present exactly when             *)
(* include_summary was requested and the raw record carries a non-empty    *)
(* default_summary, the transcript key exactly when include_transcript was *)
(* requested and the raw record carries a non-empty transcript, the        *)
(* action_items key exactly when include_action_items was requested and    *)
(* the raw record carries non-empty action_items; requesting one block     *)
(* never adds another.                                                     *)
(***************************************************************************)
C5_BlockWhenNonEmpty ==
    Decoded("list_meetings") /\ outcome = "returned" =>
        /\ Len(Projected) = Len(RawItems)
        /\ \A i \in 1..Len(Projected) :
            /\ (Projected[i].val.summary # Absent)
                  <=> (call.args.include_summary
                         /\ CarriesNonEmpty(RawItems[i], "default_summary"))
            /\ (Projected[i].val.transcript # Absent)
                  <=> (call.args.include_transcript
                         /\ CarriesNonEmpty(RawItems[i], "transcript"))
            /\ (Projected[i].val.action_items # Absent)
                  <=> (call.args.include_action_items
                         /\ CarriesNonEmpty(RawItems[i], "action_items"))

\* only the summary was asked for, of a record that has a summary, a transcript and
\* action items: the summary is there, the transcript and the action items are not
C5_Witness ==
    /\ Decoded("list_meetings")
    /\ outcome = "returned"
    /\ call.args.include_summary
    /\ ~call.args.include_transcript
    /\ ~call.args.include_action_items
    /\ RawItems = ProjectPair
    /\ Projected[1].val.summary = Summary(TemplateRecap, None)
    /\ Projected[1].val.transcript = Absent
    /\ Projected[1].val.action_items = Absent

\* the display name the claim gives a projected segment
SpeakerAsClaimed(seg) ==
    IF seg.val.speaker \in {Absent, None} THEN Unknown
    ELSE IF seg.val.speaker.val.display_name = Absent THEN Unknown
    ELSE seg.val.speaker.val.display_name

(***************************************************************************)
(* C6: the projection of list_meetings never raises on a record whose      *)
(* optional fields are absent or None, and when the transcript is          *)
(* requested and present the speaker of each projected segment is the raw  *)
(* speaker's display name, "Unknown" when the speaker or its display name  *)
(* is absent.                                                              *)
(***************************************************************************)
C6_ProjectionTotal ==
    Decoded("list_meetings") =>
        /\ outcome = "returned"
        /\ \A i \in 1..Len(Projected) :
              Projected[i].val.transcript # Absent =>
                  \A j \in 1..Len(RawItems[i].val.transcript.val) :
                      Projected[i].val.transcript.val[j].val.speaker
                          = SpeakerAsClaimed(RawItems[i].val.transcript.val[j])

==========================================================================
